---- MODULE Spec2Model ----
(***************************************************************************)
(* Model of MxeReader.py: the field codec, the XLB container parser        *)
(* (readXLB), the MXE table-of-contents engine (readMXEFile, writeMXEFile) *)
(* and the tabular bridge (writeMXEtoCSV, applyCSVtoMXE).                  *)
(*                                                                         *)
(* Representation.                                                         *)
(*  - A byte is a number 0..255; a bytes object is a sequence of bytes.    *)
(*  - A Python str is the sequence of its code points; a CSV cell is a     *)
(*    str.  The csv module's quoting and the file encoding of the CSV are  *)
(*    taken as faithful for the ASCII text the model uses.                 *)
(*  - A data-type identifier of a template ("<i", ">p", ...) is a TLA+     *)
(*    string: the code only compares identifiers and looks them up.        *)
(*  - A stored field value is a record [k, raw, val]: k = "bytes" is a     *)
(*    bytes object (raw), k = "pair" is the list [raw_addr, val] of a      *)
(*    resolved pointer, k = "none" is None.                                *)
(*  - A call that can raise returns [ok, exc, v]; ok = FALSE carries the   *)
(*    name of the Python exception.                                        *)
(*  - The float types "<f" and ">f" are outside the model: no template of  *)
(*    the model uses them.                                                 *)
(*  - open_files is the set of the file handles ("mxe", "xlb", "log") that *)
(*    an operation has opened and its code has not closed; what the        *)
(*    runtime's garbage collector does with them later is not the code's.  *)
(***************************************************************************)
EXTENDS Integers, Sequences, FiniteSets, TLC

VARIABLES file, templates, mxe_settings, output_modifiers, xlb_file,
          main_table, csv_dir, file_names, csv_path, pc, xlb, open_files, codec

vars == <<file, templates, mxe_settings, output_modifiers, xlb_file,
          main_table, csv_dir, file_names, csv_path, pc, xlb, open_files, codec>>

-----------------------------------------------------------------------------
(* Python values and exceptions *)

Ok(x) == [ok |-> TRUE, exc |-> "", v |-> x]

Raise(e) == [ok |-> FALSE, exc |-> e, v |-> <<>>]

BytesV(b) == [k |-> "bytes", raw |-> b, val |-> <<>>]

PairV(r, s) == [k |-> "pair", raw |-> r, val |-> s]

NoneV == [k |-> "none", raw |-> <<>>, val |-> <<>>]

Reverse(s) == [j \in 1..Len(s) |-> s[Len(s) + 1 - j]]

Take(s, n) == SubSeq(s, 1, IF n < Len(s) THEN n ELSE Len(s))

Drop(s, n) == SubSeq(s, n + 1, Len(s))

Zeros(n) == [j \in 1..n |-> 0]

-----------------------------------------------------------------------------
(* struct.unpack_from / struct.pack for "<i", ">i", "<h", ">h", "<b" *)

\* two's-complement value of little-endian bytes b (Len(b) >= 1)
RECURSIVE SignedLE(_)
SignedLE(b) ==
    IF Len(b) = 1 THEN (IF b[1] >= 128 THEN b[1] - 256 ELSE b[1])
    ELSE b[1] + 256 * SignedLE(Tail(b))

\* little-endian two's-complement bytes of n on w bytes
RECURSIVE PackLE(_, _)
PackLE(n, w) == IF w = 0 THEN <<>> ELSE <<n % 256>> \o PackLE(n \div 256, w - 1)

\* struct.unpack_from(fmt, buf, 0)[0] for a w-byte integer format
Unpack(x, w, little) ==
    IF x.k # "bytes" THEN Raise("TypeError")
    ELSE IF Len(x.raw) < w THEN Raise("struct.error")
    ELSE Ok(SignedLE(IF little THEN Take(x.raw, w) ELSE Reverse(Take(x.raw, w))))

MinInt32 == (0 - 2147483647) - 1

\* the range struct.pack accepts for a w-byte signed integer
InRange(n, w) ==
    CASE w = 1 -> n >= -128 /\ n <= 127
      [] w = 2 -> n >= -32768 /\ n <= 32767
      [] OTHER -> TRUE

-----------------------------------------------------------------------------
(* str(int) and int(str) *)

Digit(d) == 48 + d

IsDigit(c) == c >= 48 /\ c <= 57

RECURSIVE NegToText(_)
NegToText(n) ==
    LET r == (10 - (n % 10)) % 10
        q == (n + r) \div 10
    IN  IF q = 0 THEN <<Digit(r)>> ELSE Append(NegToText(q), Digit(r))

\* str(n): the decimal digits, a leading "-" for a negative number
IntToText(n) == IF n > 0 THEN NegToText(0 - n)
                ELSE IF n = 0 THEN <<48>>
                ELSE <<45>> \o NegToText(n)

\* digits accumulated as a non-positive number; big = beyond 32 bits
RECURSIVE ParseDigits(_, _)
ParseDigits(s, acc) ==
    IF s = <<>> THEN [ok |-> TRUE, big |-> FALSE, v |-> acc]
    ELSE IF ~IsDigit(Head(s)) THEN [ok |-> FALSE, big |-> FALSE, v |-> 0]
    ELSE IF acc < (MinInt32 + (Head(s) - 48) + 9) \div 10
         THEN [ok |-> \A j \in 1..Len(s) : IsDigit(s[j]), big |-> TRUE, v |-> 0]
         ELSE ParseDigits(Tail(s), acc * 10 - (Head(s) - 48))

\* int(s) for a str (or ASCII bytes) s of sign and digits: [ok, big, v];
\* ok = FALSE is ValueError, big = TRUE a value no 32-bit pack accepts
Signed(p, neg) ==
    IF ~p.ok \/ p.big \/ neg THEN p
    ELSE IF p.v = MinInt32 THEN [ok |-> TRUE, big |-> TRUE, v |-> 0]
    ELSE [ok |-> TRUE, big |-> FALSE, v |-> 0 - p.v]

ParseInt(s) ==
    IF s = <<>> THEN [ok |-> FALSE, big |-> FALSE, v |-> 0]
    ELSE IF Head(s) \notin {43, 45} THEN Signed(ParseDigits(s, 0), FALSE)
    ELSE IF Tail(s) = <<>> THEN [ok |-> FALSE, big |-> FALSE, v |-> 0]
    ELSE Signed(ParseDigits(Tail(s), 0), Head(s) = 45)

-----------------------------------------------------------------------------
(* Data types and converters *)

IntTypes == {"<i", "<i2", ">i", ">i2", "i1"}

HexTypes == {"<h", ">h"}

FloatTypes == {"<f", ">f"}

\* the pointer identifiers without the plain address variants
PointerTypesNoPlain == {"<p", ">p", "<pi", ">pi"}

PointerTypes == {"<ip", "<pi", "<p", ">ip", ">pi", ">p"}

\* the keys of DataTypes
DataTypeIds == IntTypes \cup HexTypes \cup FloatTypes \cup PointerTypes

\* DataTypes.get(dt), for dt a key of DataTypes
DataTypes(dt) ==
    CASE dt \in {"<i2", ">i2"} -> 2
      [] dt = "i1" -> 1
      [] OTHER -> 4

\* the struct format of an integer or address type is little-endian
LittleEndian(dt) == dt \in {"<i", "<i2", "i1", "<ip", "<pi", "<p"}

HexDigit(n) == IF n < 10 THEN 48 + n ELSE 55 + n

\* hex(byte)[2:].zfill(2).upper() + "-"
HexByte(b) == <<HexDigit(b \div 16), HexDigit(b % 16), 45>>

RECURSIVE HexJoin(_)
HexJoin(b) == IF b = <<>> THEN <<>> ELSE HexByte(Head(b)) \o HexJoin(Tail(b))

\* bytesAsBEHex: "0x", the bytes in stored order, the last character cut
CutLast(s) == SubSeq(s, 1, Len(s) - 1)

bytesAsBEHex(x) ==
    IF x.k = "none" THEN Raise("TypeError")
    ELSE IF x.k = "pair" THEN Raise("TypeError")
    ELSE Ok(CutLast(<<48, 120>> \o HexJoin(x.raw)))

\* bytesAsLEHex: the same over reversed(buf)
bytesAsLEHex(x) ==
    IF x.k = "none" THEN Raise("TypeError")
    ELSE IF x.k = "pair" THEN Raise("TypeError")
    ELSE Ok(CutLast(<<48, 120>> \o HexJoin(Reverse(x.raw))))

\* one character of the shift_jisx0213 decoding of a single-byte code
\* (double-byte sequences are outside the model)
DecodeChar(b) ==
    CASE b = 92 -> 165
      [] b = 126 -> 8254
      [] b >= 161 /\ b <= 223 -> b + 65216
      [] OTHER -> b

RECURSIVE DecodeStr(_)
DecodeStr(b) == IF b = <<>> THEN <<>> ELSE <<DecodeChar(Head(b))>> \o DecodeStr(Tail(b))

RECURSIVE RStripNul(_)
RStripNul(s) == IF s # <<>> /\ s[Len(s)] = 0 THEN RStripNul(SubSeq(s, 1, Len(s) - 1)) ELSE s

\* bytesAsString: buf.decode(enc).rstrip('\x00')
bytesAsString(x) ==
    IF x.k # "bytes" THEN Raise("AttributeError") ELSE Ok(RStripNul(DecodeStr(x.raw)))

\* str() of an unpacked integer
IntCell(u) == IF u.ok THEN Ok(IntToText(u.v)) ELSE u

\* bytesToText followed by the csv writer's str(): the cell text of a value.
\* An identifier without converter gives None, written as the empty cell.
bytesToText(x, dt) ==
    IF dt = "s" THEN bytesAsString(x)
    ELSE IF dt = "<h" THEN bytesAsLEHex(x)
    ELSE IF dt = ">h" THEN bytesAsBEHex(x)
    ELSE IF dt \in IntTypes \cup PointerTypes
    THEN IntCell(Unpack(x, DataTypes(dt), LittleEndian(dt)))
    ELSE Ok(<<>>)

\* struct.pack of int(obj) for an integer or address type
Pack(p, w, little) ==
    IF ~p.ok THEN Raise("ValueError")
    ELSE IF p.big \/ ~InRange(p.v, w) THEN Raise("struct.error")
    ELSE Ok(BytesV(IF little THEN PackLE(p.v, w) ELSE Reverse(PackLE(p.v, w))))

IntAsBytes(txt, dt) == Pack(ParseInt(txt), DataTypes(dt), LittleEndian(dt))

RECURSIVE RemoveChar(_, _)
RemoveChar(s, c) ==
    IF s = <<>> THEN <<>>
    ELSE IF Head(s) = c THEN RemoveChar(Tail(s), c)
    ELSE <<Head(s)>> \o RemoveChar(Tail(s), c)

\* str.replace('0x', '')
RECURSIVE Remove0x(_)
Remove0x(s) ==
    IF s = <<>> THEN <<>>
    ELSE IF Len(s) >= 2 /\ s[1] = 48 /\ s[2] = 120 THEN Remove0x(Tail(Tail(s)))
    ELSE <<Head(s)>> \o Remove0x(Tail(s))

IsHexDigit(c) == IsDigit(c) \/ (c >= 65 /\ c <= 70) \/ (c >= 97 /\ c <= 102)

HexVal(c) == IF IsDigit(c) THEN c - 48 ELSE IF c >= 97 THEN c - 87 ELSE c - 55

RECURSIVE HexPairs(_)
HexPairs(s) == IF s = <<>> THEN <<>>
               ELSE <<16 * HexVal(s[1]) + HexVal(s[2])>> \o HexPairs(Tail(Tail(s)))

\* codecs.decode(b, "hex")
HexDecode(s) ==
    IF Len(s) % 2 # 0 \/ \E j \in 1..Len(s) : ~IsHexDigit(s[j]) THEN Raise("binascii.Error")
    ELSE Ok(HexPairs(s))

\* struct.unpack(fmt, c) then struct.pack(fmt, ..) of the decoded bytes d
Repack(d, little) ==
    IF ~d.ok THEN d
    ELSE IF Len(d.v) # 4 THEN Raise("struct.error")
    ELSE IF little THEN Ok(BytesV(PackLE(SignedLE(d.v), 4)))
    ELSE Ok(BytesV(Reverse(PackLE(SignedLE(Reverse(d.v)), 4))))

\* leHexAsBytes: unpack "<i" then pack "<i" of the decoded bytes
leHexAsBytes(txt) == Repack(HexDecode(Remove0x(RemoveChar(txt, 45))), TRUE)

\* beHexAsBytes: unpack ">i" then pack ">i" of the decoded bytes
beHexAsBytes(txt) == Repack(HexDecode(Remove0x(RemoveChar(txt, 45))), FALSE)

\* objToBytes: the stored value of a cell text; None without converter
objToBytes(txt, dt) ==
    IF dt = "<h" THEN leHexAsBytes(txt)
    ELSE IF dt = ">h" THEN beHexAsBytes(txt)
    ELSE IF dt \in IntTypes \cup PointerTypes THEN IntAsBytes(txt, dt)
    ELSE IF dt = "s" THEN Ok(BytesV(txt))
    ELSE Ok(NoneV)

-----------------------------------------------------------------------------
(* readXLB *)
(* An XLB file is [sections, marker, payload]: sections is the header      *)
(* block, one [recordCount, ids] per type, ids the keys of its skeleton    *)
(* rows; marker is the 4 bytes after the header block; payload is the      *)
(* sequence of [key, bytes] records, its stored record count being its     *)
(* length.  data[h] is [recordCount, records], records[j] = [id, filled,   *)
(* text]: filled = FALSE is the initial '' of a slot.                      *)

CHNK == <<67, 72, 78, 75>>

\* lines 342-357: one [rec_header, records] per type
XlbHeaderBlock(xf) ==
    [h \in 1..Len(xf.sections) |->
        [recordCount |-> xf.sections[h].recordCount,
         records |-> [j \in 1..Len(xf.sections[h].ids) |->
                         [id |-> xf.sections[h].ids[j], filled |-> FALSE, text |-> <<>>]]]]

XlbIdle == [pc |-> "idle", data |-> <<>>, currHeader |-> 0, currRec |-> 0,
            prev_id2 |-> 0, rec_id2 |-> 0, rec_bytes |-> <<>>, i |-> 0]

\* XlbOpenOp with the first slot counted from key 32 instead of 48
XlbOpenOpFrom32(xf) ==
    IF bytesAsString(BytesV(xf.marker)).v # CHNK
    THEN [XlbIdle EXCEPT !.pc = "returned", !.data = XlbHeaderBlock(xf)]
    ELSE IF xf.payload = <<>>
    THEN [XlbIdle EXCEPT !.pc = "raised", !.data = XlbHeaderBlock(xf)]
    ELSE [XlbIdle EXCEPT !.pc = "store", !.data = XlbHeaderBlock(xf),
                         !.rec_id2 = xf.payload[1].key,
                         !.rec_bytes = xf.payload[1].bytes,
                         !.prev_id2 = xf.payload[1].key,
                         !.currRec = (xf.payload[1].key - 32) \div 16]

\* lines 335-376: header block, marker check, first record read by hand
XlbOpenOp(xf) ==
    IF bytesAsString(BytesV(xf.marker)).v # CHNK
    THEN [XlbIdle EXCEPT !.pc = "returned", !.data = XlbHeaderBlock(xf)]
    ELSE IF xf.payload = <<>>
    THEN [XlbIdle EXCEPT !.pc = "raised", !.data = XlbHeaderBlock(xf)]
    ELSE [XlbIdle EXCEPT !.pc = "store", !.data = XlbHeaderBlock(xf),
                         !.rec_id2 = xf.payload[1].key,
                         !.rec_bytes = xf.payload[1].bytes,
                         !.prev_id2 = xf.payload[1].key,
                         !.currRec = (xf.payload[1].key - 48) \div 16]

\* data[currHeader][1][currRec] exists, with Python's negative indices
XlbIndexOk(st) ==
    /\ st.currHeader + 1 \in 1..Len(st.data)
    /\ LET n == Len(st.data[st.currHeader + 1].records)
       IN  st.currRec < n /\ st.currRec >= 0 - n

\* the 1-based position of Python's index r in a list of n elements
PyIndex(r, n) == IF r >= 0 THEN r + 1 ELSE n + r + 1

\* lines 378 and 428-431: store the payload, remember the key, count
XlbStoreAt(st, xf, h, j) ==
    [st EXCEPT !.data[h].records[j].text = st.rec_bytes,
               !.data[h].records[j].filled = TRUE,
               !.prev_id2 = st.rec_id2,
               !.i = st.i + 1,
               !.pc = IF st.i + 1 < Len(xf.payload) THEN "place" ELSE "returned"]

XlbStoreOp(st, xf) ==
    IF ~XlbIndexOk(st) THEN [st EXCEPT !.pc = "raised"]
    ELSE XlbStoreAt(st, xf, st.currHeader + 1,
                    PyIndex(st.currRec, Len(st.data[st.currHeader + 1].records)))

\* XlbPlaceAt with a carry-over of 2 rows instead of 3
XlbPlaceAtCarry2(st, rec, add, count) ==
    IF st.currRec + add < count
    THEN [st EXCEPT !.rec_id2 = rec.key, !.rec_bytes = rec.bytes,
                    !.currRec = st.currRec + add, !.pc = "store"]
    ELSE [st EXCEPT !.rec_id2 = rec.key, !.rec_bytes = rec.bytes,
                    !.currHeader = st.currHeader + 1,
                    !.currRec = add - (count - 1 - st.currRec) - 2,
                    !.pc = "crutch"]

\* lines 385-398: read the next record and place it by the key difference
XlbPlaceAt(st, rec, add, count) ==
    IF st.currRec + add < count
    THEN [st EXCEPT !.rec_id2 = rec.key, !.rec_bytes = rec.bytes,
                    !.currRec = st.currRec + add, !.pc = "store"]
    ELSE [st EXCEPT !.rec_id2 = rec.key, !.rec_bytes = rec.bytes,
                    !.currHeader = st.currHeader + 1,
                    !.currRec = add - (count - 1 - st.currRec) - 3,
                    !.pc = "crutch"]

XlbPlaceOp(st, xf) ==
    XlbPlaceAt(st, xf.payload[st.i + 1],
               (xf.payload[st.i + 1].key - st.prev_id2) \div 16,
               st.data[st.currHeader + 1].recordCount)

\* lines 404-418: the literal key pairs that override the computed slot
XlbCrutchSlot(prev, key, rec) ==
    LET r1 == IF key = 108184 /\ prev = 108120 THEN 0 ELSE rec
        r2 == IF key = 157496 /\ prev = 157368 THEN 0 ELSE r1
        r3 == IF key = 160312 /\ prev = 160248 THEN 0 ELSE r2
        r4 == IF key = 177416 /\ prev = 175880 THEN 1 ELSE r3
    IN  IF key = 174456 /\ prev = 172856 THEN 0 ELSE r4

XlbCrutchOp(st) ==
    [st EXCEPT !.currRec = XlbCrutchSlot(st.prev_id2, st.rec_id2, st.currRec), !.pc = "skip"]

\* lines 421-423: the while loop over small empty types
RECURSIVE XlbSkipEmptyOp(_)
XlbSkipEmptyOp(st) ==
    IF st.currHeader + 1 > Len(st.data) THEN [st EXCEPT !.pc = "raised"]
    ELSE IF st.currRec > st.data[st.currHeader + 1].recordCount
    THEN XlbSkipEmptyOp(
             [st EXCEPT !.currRec = st.currRec - (st.data[st.currHeader + 1].recordCount - 1) - 3,
                        !.currHeader = st.currHeader + 1])
    ELSE [st EXCEPT !.pc = "store"]

XlbStepOp(st, xf) ==
    CASE st.pc = "idle" -> XlbOpenOp(xf)
      [] st.pc = "store" -> XlbStoreOp(st, xf)
      [] st.pc = "place" -> XlbPlaceOp(st, xf)
      [] st.pc = "crutch" -> XlbCrutchOp(st)
      [] st.pc = "skip" -> XlbSkipEmptyOp(st)
      [] OTHER -> st

\* readXLB as one call: [pc, data] at its end
RECURSIVE XlbRun(_, _)
XlbRun(st, xf) == IF st.pc \in {"returned", "raised"} THEN st ELSE XlbRun(XlbStepOp(st, xf), xf)

readXLB(xf) == XlbRun(XlbIdle, xf)

\* findByIDInXLB: the text of the first slot with that id; "none" is None
RECURSIVE FindInRecords(_, _)
FindInRecords(recs, id) ==
    IF recs = <<>> THEN [found |-> FALSE, filled |-> FALSE, text |-> <<>>]
    ELSE IF Head(recs).id = id
         THEN [found |-> TRUE, filled |-> Head(recs).filled, text |-> Head(recs).text]
         ELSE FindInRecords(Tail(recs), id)

RECURSIVE findByIDInXLB(_, _)
findByIDInXLB(data, id) ==
    IF data = <<>> THEN [found |-> FALSE, filled |-> FALSE, text |-> <<>>]
    ELSE IF \E j \in 1..Len(Head(data).records) : Head(data).records[j].id = id
    THEN FindInRecords(Head(data).records, id)
    ELSE findByIDInXLB(Tail(data), id)

-----------------------------------------------------------------------------
(* MXE settings, file access *)

MXE_ADDRESS_OFFSET == 64

MAIN_TABLE_COUNT_ADDR == 200

MAIN_TABLE_STARTADDR_ADDR == 224

TOC_ENTRY_SIZE == 32

TOC_FIELD_ID == 0

TOC_FIELD_TYPE == 4

TOC_FIELD_TYPENAME_ADDR == 8

TOC_FIELD_RECORD_ADDR == 16

\* followAddress with its default offset
followAddress(raw_address) == raw_address + MXE_ADDRESS_OFFSET

\* f.seek(pos); f.read(n): short at the end of the file
ReadAt(f, pos, n) ==
    IF pos >= Len(f) THEN <<>>
    ELSE SubSeq(f, pos + 1, IF pos + n < Len(f) THEN pos + n ELSE Len(f))

\* f.seek(pos); f.write(b): a write past the end pads with zero bytes
WriteAt(f, pos, b) ==
    IF b = <<>> THEN f
    ELSE IF pos > Len(f) THEN f \o Zeros(pos - Len(f)) \o b
    ELSE Take(f, pos) \o b \o Drop(f, pos + Len(b))

\* v in front of the list r computed after it, r's exception otherwise
Prepend(v, r) == IF r.ok THEN Ok(<<v>> \o r.v) ELSE r

\* the loop of readZeroDelBytes from position pos; at the end of the file
\* read(1) gives b'', which the loop appends for ever ("hang")
RECURSIVE ZeroDelLoop(_, _)
ZeroDelLoop(f, pos) ==
    IF pos >= Len(f) THEN Raise("hang")
    ELSE IF f[pos + 1] = 0 THEN Ok(<<>>)
    ELSE Prepend(f[pos + 1], ZeroDelLoop(f, pos + 1))

readZeroDelBytes(f, startpos) ==
    IF startpos < 0 THEN Raise("OSError") ELSE ZeroDelLoop(f, startpos)

Decoded(r) == IF r.ok THEN Ok(DecodeStr(r.v)) ELSE r

readStr(f, startpos) == Decoded(readZeroDelBytes(f, startpos))

\* struct.unpack_from("<i", buf, off)[0]
UnpackAt(buf, off) ==
    IF Len(buf) < off + 4 THEN Raise("struct.error")
    ELSE Ok(SignedLE(SubSeq(buf, off + 1, off + 4)))

\* str.split(':')[0]
RECURSIVE SplitFirst(_)
SplitFirst(name) ==
    IF name = <<>> \/ Head(name) = 58 THEN <<>>
    ELSE <<Head(name)>> \o SplitFirst(Tail(name))

\* [ s for s in templates if s[0] == key ]: the positions of the matches
TemplateMatches(tpls, key) == {t \in 1..Len(tpls) : tpls[t].name = key}

\* ...[0]: the first match, 0 for the IndexError of an empty list
FindTemplate(tpls, key) ==
    IF TemplateMatches(tpls, key) = {} THEN 0
    ELSE CHOOSE t \in TemplateMatches(tpls, key) : \A u \in TemplateMatches(tpls, key) : t <= u

\* the template key of an entry
\* the stored type-name taken whole
TemplateKeyWhole(entry) == entry.name

TemplateKey(entry) == SplitFirst(entry.name)

-----------------------------------------------------------------------------
(* readMXEFile *)

TocEntry(id, ty, a1, nm, ra) ==
    IF ~nm.ok THEN nm
    ELSE Ok([id |-> id.v, type |-> ty.v, name_addr |-> a1.v,
             name |-> nm.v, rec_addr |-> ra.v, fields |-> <<>>])

TocEntryOf(f, a1, id, ty, ra) ==
    IF ~a1.ok THEN a1
    ELSE IF followAddress(a1.v) < 0 THEN Raise("OSError")
    ELSE TocEntry(id, ty, a1, readStr(f, followAddress(a1.v)), ra)

TocEntryIn(f, buf) ==
    TocEntryOf(f, UnpackAt(buf, TOC_FIELD_TYPENAME_ADDR), UnpackAt(buf, TOC_FIELD_ID),
               UnpackAt(buf, TOC_FIELD_TYPE), UnpackAt(buf, TOC_FIELD_RECORD_ADDR))

\* lines 491-502: TOC entry k (from 0) of the table at position start
ReadTocEntry(f, start, k) ==
    TocEntryIn(f, ReadAt(f, start + TOC_ENTRY_SIZE * k, TOC_ENTRY_SIZE))

RECURSIVE ReadToc(_, _, _, _)
TocCons(e, f, start, k, count) ==
    IF ~e.ok THEN e ELSE Prepend(e.v, ReadToc(f, start, k + 1, count))

\* lines 490-502: the count entries of the TOC
ReadToc(f, start, k, count) ==
    IF k >= count THEN Ok(<<>>) ELSE TocCons(ReadTocEntry(f, start, k), f, start, k, count)

PairOf(raw_addr, val) == IF val.ok THEN Ok(PairV(raw_addr, val.v)) ELSE val

\* lines 520-523 and 526-529: the pair of a resolved pointer
Resolved(f, raw_addr, int_addr, dt) ==
    IF ~int_addr.ok THEN int_addr
    ELSE IF dt \in {"<p", ">p"} THEN PairOf(raw_addr, readStr(f, followAddress(int_addr.v)))
    ELSE PairOf(raw_addr, readZeroDelBytes(f, followAddress(int_addr.v)))

FieldOf(f, raw_addr, dt, st) ==
    IF (dt \in {"<p", ">p"} /\ st.RESOLVE_CLASSIC_POINTERS)
       \/ (dt \in {"<pi", ">pi"} /\ st.RESOLVE_XLB_POINTERS)
    THEN Resolved(f, raw_addr, Unpack(BytesV(raw_addr), 4, LittleEndian(dt)), dt)
    ELSE Ok(BytesV(raw_addr))

\* lines 519-532: one field of a known data type read at pos
ReadField(f, pos, dt, st) == FieldOf(f, ReadAt(f, pos, DataTypes(dt)), dt, st)

RECURSIVE ReadFields(_, _, _, _)
FieldCons(x, f, pos, dts, st) ==
    IF ~x.ok THEN x ELSE Prepend(x.v, ReadFields(f, pos + Len(x.v.raw), Tail(dts), st))

\* lines 516-534: the fields of a template from pos; an identifier that is
\* no key of DataTypes is skipped: nothing read, nothing appended
ReadFields(f, pos, dts, st) ==
    IF dts = <<>> THEN Ok(<<>>)
    ELSE IF Head(dts) \notin DataTypeIds THEN ReadFields(f, pos, Tail(dts), st)
    ELSE FieldCons(ReadField(f, pos, Head(dts), st), f, pos, dts, st)

\* EntryFields with the IndexError of a missing template left uncaught
EntryFieldsUncaught(f, entry, t, tpls, st) ==
    IF t = 0 THEN Raise("IndexError")
    ELSE IF followAddress(entry.rec_addr) < 0 THEN Raise("OSError")
    ELSE ReadFields(f, followAddress(entry.rec_addr), tpls[t].fields, st)

\* lines 511-537: the fields of one entry; without template the IndexError
\* is caught and the field list stays empty
EntryFields(f, entry, t, tpls, st) ==
    IF t = 0 THEN Ok(<<>>)
    ELSE IF followAddress(entry.rec_addr) < 0 THEN Raise("OSError")
    ELSE ReadFields(f, followAddress(entry.rec_addr), tpls[t].fields, st)

RECURSIVE ReadEntries(_, _, _, _)
EntryCons(fl, f, table, tpls, st) ==
    IF ~fl.ok THEN fl
    ELSE Prepend([Head(table) EXCEPT !.fields = fl.v], ReadEntries(f, Tail(table), tpls, st))

\* lines 510-538: the entries with their fields
ReadEntries(f, table, tpls, st) ==
    IF table = <<>> THEN Ok(<<>>)
    ELSE EntryCons(EntryFields(f, Head(table), FindTemplate(tpls, TemplateKey(Head(table))),
                               tpls, st),
                   f, table, tpls, st)

TocThen(toc, f, tpls, st) == IF ~toc.ok THEN toc ELSE ReadEntries(f, toc.v, tpls, st)

ReadFrom(f, entry_count, entry_start, tpls, st) ==
    IF ~entry_count.ok THEN entry_count
    ELSE IF ~entry_start.ok THEN entry_start
    ELSE IF followAddress(entry_start.v) < 0 THEN Raise("OSError")
    ELSE TocThen(ReadToc(f, followAddress(entry_start.v), 0, entry_count.v), f, tpls, st)

\* readMXEFile: the Main Table, or the exception that ends the read
readMXEFile(f, tpls, st) ==
    ReadFrom(f, UnpackAt(ReadAt(f, MAIN_TABLE_COUNT_ADDR, 4), 0),
             UnpackAt(ReadAt(f, MAIN_TABLE_STARTADDR_ADDR, 4), 0), tpls, st)

-----------------------------------------------------------------------------
(* writeMXEFile *)

\* lines 578-598: the bytes f.write receives for field value x of type dt
\* [ok, exc, v]: bytearray(int) is that many zero bytes
WriteBytes(x, dt, st) ==
    IF (dt \in {"<p", ">p"} /\ st.RESOLVE_CLASSIC_POINTERS)
       \/ (dt \in {"<pi", ">pi"} /\ st.RESOLVE_XLB_POINTERS)
    THEN CASE x.k = "pair" -> Ok(x.raw)
           [] x.k = "none" -> Raise("TypeError")
           [] OTHER -> IF x.raw = <<>> THEN Raise("IndexError") ELSE Ok(Zeros(x.raw[1]))
    ELSE CASE x.k = "bytes" -> Ok(x.raw)
           [] OTHER -> Raise("TypeError")

RECURSIVE WriteFields(_, _, _, _, _, _)
FieldWritten(b, f, pos, dts, i, fields, st) ==
    IF ~b.ok THEN [f |-> f, exc |-> b.exc]
    ELSE WriteFields(WriteAt(f, pos, b.v), pos + Len(b.v), dts, i + 1, fields, st)

\* lines 575-603: the fields of one entry written from pos, i counting the
\* template's fields; [f, exc]
WriteFields(f, pos, dts, i, fields, st) ==
    IF i > Len(dts) THEN [f |-> f, exc |-> ""]
    ELSE IF dts[i] \notin DataTypeIds THEN WriteFields(f, pos, dts, i + 1, fields, st)
    ELSE IF i > Len(fields) THEN [f |-> f, exc |-> "IndexError"]
    ELSE FieldWritten(WriteBytes(fields[i], dts[i], st), f, pos, dts, i, fields, st)

RECURSIVE WriteEntries(_, _, _, _)
EntryWritten(w, table, tpls, st) ==
    IF w.exc \in {"", "IndexError"} THEN WriteEntries(w.f, Tail(table), tpls, st) ELSE w

WriteEntry(f, entry, t, table, tpls, st) ==
    IF t = 0 THEN WriteEntries(f, Tail(table), tpls, st)
    ELSE IF followAddress(entry.rec_addr) < 0 THEN [f |-> f, exc |-> "OSError"]
    ELSE EntryWritten(WriteFields(f, followAddress(entry.rec_addr), tpls[t].fields,
                                  1, entry.fields, st),
                      table, tpls, st)

\* lines 563-608: every entry in turn; an IndexError skips the rest of the
\* entry, another exception ends the write
WriteEntries(f, table, tpls, st) ==
    IF table = <<>> THEN [f |-> f, exc |-> ""]
    ELSE WriteEntry(f, Head(table), FindTemplate(tpls, TemplateKey(Head(table))),
                    table, tpls, st)

\* writeMXEFile: the file after the write and the exception that ended it
writeMXEFile(f, table, tpls, st) == WriteEntries(f, table, tpls, st)

-----------------------------------------------------------------------------
(* writeMXEtoCSV *)
(* A CSV file is [head, rows]: head holds the header line (none in an empty *)
(* file) as [c0, c1, dts], dts the data-type identifiers of the field       *)
(* columns (the part of "datatype:fieldname" before the ':'); a row is      *)
(* [id, name, cells], all texts.                                            *)

RecordIdText == <<82, 101, 99, 111, 114, 100, 73, 100>>

InternalNameText == <<73, 110, 116, 101, 114, 110, 97, 108, 78, 97, 109, 101>>

\* str.replace("\n", "\\LF")
RECURSIVE ReplaceLF(_)
ReplaceLF(s) ==
    IF s = <<>> THEN <<>>
    ELSE IF Head(s) = 10 THEN <<92, 76, 70>> \o ReplaceLF(Tail(s))
    ELSE <<Head(s)>> \o ReplaceLF(Tail(s))

\* What a cell is rendered from: the value x handed to converter conv
\* ("hex": bytesAsBEHex, "sLF": bytesToText(x, "s") with the line feeds
\* replaced, "text": the str x.val as it is, "int": str() of the int
\* x.raw[1], "exc": the exception named by x.val, else bytesToText(x, conv)).
Plan(x, conv) == [x |-> x, conv |-> conv]

PlanText(t) == Plan([k |-> "text", raw |-> <<>>, val |-> t], "text")

PlanRaise(e) == Plan([k |-> "exc", raw |-> <<>>, val |-> e], "exc")

\* data[n] of a stored value, n = 0 or 1, as a plan for converter conv
Element(data, n, conv) ==
    CASE data.k = "none" -> PlanRaise("TypeError")
      [] data.k = "pair" -> IF n = 0 THEN Plan(BytesV(data.raw), conv)
                            ELSE IF conv = "text" THEN PlanText(data.val)
                            ELSE Plan(BytesV(data.val), conv)
      [] OTHER -> IF Len(data.raw) < n + 1 THEN PlanRaise("IndexError")
                  ELSE IF conv = "text" THEN Plan(BytesV(<<data.raw[n + 1]>>), "int")
                  ELSE IF conv = "sLF" THEN PlanRaise("AttributeError")
                  ELSE PlanRaise("TypeError")

\* lines 652-660: the cell of a classic pointer column
ClassicPointerCell(data, dt, st, om) ==
    IF om.FORCE_RAW_CLASSIC_POINTERS THEN Plan(data, dt)
    ELSE IF ~st.RESOLVE_CLASSIC_POINTERS THEN Plan(data, dt)
    ELSE Element(data, 1, "text")

XlbFound(res) == IF res.found /\ res.filled THEN Plan(BytesV(res.text), "sLF") ELSE PlanText(<<>>)

XlbLookup(a, val, xlb_list) ==
    IF ~a.ok THEN Plan(BytesV(val), "sLF")
    ELSE IF a.big THEN PlanText(<<>>)
    ELSE XlbFound(findByIDInXLB(xlb_list, a.v))

\* lines 676-687: the text of the XLB string whose id is data[1]
XlbStringCell(data, xlb_list) ==
    CASE data.k = "none" -> PlanRaise("TypeError")
      [] data.k = "bytes" ->
           IF Len(data.raw) < 2 THEN PlanRaise("IndexError")
           ELSE XlbFound(findByIDInXLB(xlb_list, data.raw[2]))
      [] OTHER ->
           IF data.val = <<>> THEN PlanText(<<>>)
           ELSE XlbLookup(ParseInt(data.val), data.val, xlb_list)

\* lines 662-690: the cell of an XLB pointer column
XlbPointerCell(data, dt, st, om, xlb_list) ==
    IF om.FORCE_RAW_XLB_POINTERS
    THEN IF ~st.RESOLVE_XLB_POINTERS THEN Plan(data, dt) ELSE Element(data, 0, dt)
    ELSE IF ~st.RESOLVE_XLB_POINTERS THEN Plan(data, dt)
    ELSE IF st.RESOLVE_XLB_STRINGS
    THEN IF om.FORCE_XLB_IDS THEN Plan(data, dt) ELSE XlbStringCell(data, xlb_list)
    ELSE Element(data, 1, "sLF")

\* lines 646-693: what the cell of field value data, the i-th of its
\* entry, is rendered from
CellPlan(data, i, dts, st, om, xlb_list) ==
    IF om.FORCE_HEX_OUTPUT THEN Plan(data, "hex")
    ELSE IF i > Len(dts) THEN PlanRaise("IndexError")
    ELSE IF dts[i] \in {"<p", ">p"} THEN ClassicPointerCell(data, dts[i], st, om)
    ELSE IF dts[i] \in {"<pi", ">pi"} THEN XlbPointerCell(data, dts[i], st, om, xlb_list)
    ELSE Plan(data, dts[i])

LFReplaced(r) == IF r.ok THEN Ok(ReplaceLF(r.v)) ELSE r

\* the text row.append receives
Render(p) ==
    CASE p.conv = "exc" -> Raise(p.x.val)
      [] p.conv = "text" -> Ok(p.x.val)
      [] p.conv = "int" -> Ok(IntToText(p.x.raw[1]))
      [] p.conv = "hex" -> bytesAsBEHex(p.x)
      [] p.conv = "sLF" -> LFReplaced(bytesToText(p.x, "s"))
      [] OTHER -> bytesToText(p.x, p.conv)

ExportCell(data, i, dts, st, om, xlb_list) == Render(CellPlan(data, i, dts, st, om, xlb_list))

RECURSIVE ExportCells(_, _, _, _, _, _)
CellCons(c, fields, i, dts, st, om, xlb_list) ==
    IF ~c.ok THEN c ELSE Prepend(c.v, ExportCells(fields, i + 1, dts, st, om, xlb_list))

\* lines 644-694: the field cells of one entry
ExportCells(fields, i, dts, st, om, xlb_list) ==
    IF i > Len(fields) THEN Ok(<<>>)
    ELSE CellCons(ExportCell(fields[i], i, dts, st, om, xlb_list),
                  fields, i, dts, st, om, xlb_list)

RowFirst(row, r) == [rows |-> <<row>> \o r.rows, exc |-> r.exc]

RECURSIVE ExportRows(_, _, _, _, _, _)
RowCons(c, table, key, dts, st, om, xlb_list) ==
    IF ~c.ok THEN [rows |-> <<>>, exc |-> c.exc]
    ELSE RowFirst([id |-> IntToText(Head(table).id), name |-> Head(table).name, cells |-> c.v],
                  ExportRows(Tail(table), key, dts, st, om, xlb_list))

\* lines 642-695: the rows of the entries whose template key is key;
\* [rows, exc]: the rows written before an exception stay in the file
ExportRows(table, key, dts, st, om, xlb_list) ==
    IF table = <<>> THEN [rows |-> <<>>, exc |-> ""]
    ELSE IF TemplateKey(Head(table)) # key
    THEN ExportRows(Tail(table), key, dts, st, om, xlb_list)
    ELSE RowCons(ExportCells(Head(table).fields, 1, dts, st, om, xlb_list),
                 table, key, dts, st, om, xlb_list)

TableOf(dts, r) ==
    [csv |-> [head |-> <<[c0 |-> RecordIdText, c1 |-> InternalNameText, dts |-> dts]>>,
              rows |-> r.rows],
     exc |-> r.exc]

ExportWith(table, key, t, tpls, st, om, xlb_list) ==
    IF t = 0 THEN [csv |-> [head |-> <<>>, rows |-> <<>>], exc |-> "IndexError"]
    ELSE TableOf(tpls[t].fields, ExportRows(table, key, tpls[t].fields, st, om, xlb_list))

\* lines 628-695: the file of one template key; [csv, exc]
ExportTable(table, key, tpls, st, om, xlb_list) ==
    ExportWith(table, key, FindTemplate(tpls, key), tpls, st, om, xlb_list)

\* uniq_templates: the template keys found in the data
UniqTemplates(table) == {TemplateKey(table[n]) : n \in 1..Len(table)}

PutFile(dir, key, csv) == [k \in DOMAIN dir \cup {key} |-> IF k = key THEN csv ELSE dir[k]]

RECURSIVE ExportAll(_, _, _, _, _, _, _)
TableDone(r, order, dir, table, tpls, st, om, xlb_list) ==
    IF r.exc # "" THEN [dir |-> PutFile(dir, Head(order), r.csv), exc |-> r.exc]
    ELSE ExportAll(Tail(order), PutFile(dir, Head(order), r.csv), table, tpls, st, om, xlb_list)

\* lines 627-695: the keys in the order the set yields them; [dir, exc]
ExportAll(order, dir, table, tpls, st, om, xlb_list) ==
    IF order = <<>> THEN [dir |-> dir, exc |-> ""]
    ELSE TableDone(ExportTable(table, Head(order), tpls, st, om, xlb_list),
                   order, dir, table, tpls, st, om, xlb_list)

ExportUsing(x, order, dir, table, tpls, st, om) ==
    IF x.pc = "raised" THEN [dir |-> dir, exc |-> "readXLB"]
    ELSE ExportAll(order, dir, table, tpls, st, om, x.data)

\* writeMXEtoCSV into the directory dir, order an order of uniq_templates
writeMXEtoCSV(dir, table, tpls, xf, st, om, order) ==
    IF st.RESOLVE_XLB_STRINGS THEN ExportUsing(readXLB(xf), order, dir, table, tpls, st, om)
    ELSE ExportUsing(XlbIdle, order, dir, table, tpls, st, om)

-----------------------------------------------------------------------------
(* applyCSVtoMXE *)

Located(p, n) ==
    IF ~p.ok THEN Raise("ValueError")
    ELSE IF p.big \/ p.v >= n \/ p.v < 0 - n THEN Raise("IndexError")
    ELSE Ok(PyIndex(p.v, n))

\* main_table[int(row[0])][4]: the 1-based position of the entry;
\* [ok, exc, v]
LocateEntry(table, idtext) == Located(ParseInt(idtext), Len(table))

RECURSIVE ApplyColumns(_, _, _, _, _, _)
\* lines 729-732: the encoded cell b compared with entry[i] and stored
CellApplied(b, table, e, dts, i, header_row, cells) ==
    IF ~b.ok THEN [table |-> table, exc |-> b.exc]
    ELSE IF e = 0 THEN [table |-> table, exc |-> "UnboundLocalError"]
    ELSE IF i > Len(table[e].fields) THEN ApplyColumns(table, e, dts, i + 1, header_row, cells)
    ELSE IF table[e].fields[i] = b.v THEN ApplyColumns(table, e, dts, i + 1, header_row, cells)
    ELSE ApplyColumns([table EXCEPT ![e].fields[i] = b.v], e, dts, i + 1, header_row, cells)

\* lines 721-735: the columns of one row applied to entry e (0: the name
\* entry is not bound); [table, exc]
ApplyColumns(table, e, dts, i, header_row, cells) ==
    IF i > Len(dts) THEN [table |-> table, exc |-> ""]
    ELSE IF i > Len(header_row) \/ header_row[i] # dts[i] \/ dts[i] \in PointerTypes
            \/ i > Len(cells)
    THEN ApplyColumns(table, e, dts, i + 1, header_row, cells)
    ELSE CellApplied(objToBytes(cells[i], dts[i]), table, e, dts, i, header_row, cells)

RECURSIVE ApplyRows(_, _, _, _, _)
RowApplied(r, e, dts, header_row, rows) ==
    IF r.exc # "" THEN r ELSE ApplyRows(r.table, e, dts, header_row, Tail(rows))

\* lines 716-719: the entry of the row; the one the previous row left when
\* the IndexError is caught
RowEntry(loc, table, e, dts, header_row, rows) ==
    IF ~loc.ok /\ loc.exc # "IndexError" THEN [table |-> table, exc |-> loc.exc]
    ELSE IF loc.ok
    THEN RowApplied(ApplyColumns(table, loc.v, dts, 1, header_row, Head(rows).cells),
                    loc.v, dts, header_row, rows)
    ELSE RowApplied(ApplyColumns(table, e, dts, 1, header_row, Head(rows).cells),
                    e, dts, header_row, rows)

\* lines 711-735: the data rows in turn
ApplyRows(table, e, dts, header_row, rows) ==
    IF rows = <<>> THEN [table |-> table, exc |-> ""]
    ELSE RowEntry(LocateEntry(table, Head(rows).id), table, e, dts, header_row, rows)

ApplyWith(table, t, tpls, csv) ==
    IF t = 0 THEN [table |-> table, exc |-> "IndexError"]
    ELSE ApplyRows(table, 0, tpls[t].fields, csv.head[1].dts, csv.rows)

\* applyCSVtoMXE: the Main Table after the file csv is applied; [table, exc]
applyCSVtoMXE(table, tpls, csv) ==
    IF csv.head = <<>> THEN [table |-> table, exc |-> ""]
    ELSE IF csv.head[1].c0 # RecordIdText \/ csv.head[1].c1 # InternalNameText
    THEN [table |-> table, exc |-> ""]
    ELSE IF csv.rows = <<>> THEN [table |-> table, exc |-> ""]
    ELSE ApplyWith(table, FindTemplate(tpls, SplitFirst(csv.rows[1].name)), tpls, csv)

-----------------------------------------------------------------------------
(* Inputs: templates, MXE files, CSV files written by hand, XLB files *)

NameT == <<84>>

NameTQ == <<84, 58, 81>>

NameU == <<85>>

NameX == <<88>>

NameV == <<86>>

\* the template table: [name, fields], fields the data-type identifiers;
\* "zz" is no key of DataTypes
TemplateTable ==
    << [name |-> NameT, fields |-> <<"<i", "<p", "i1", ">i2">>],
       [name |-> NameU, fields |-> <<"<pi", ">i", "<i2", ">ip">>],
       [name |-> NameV, fields |-> <<"zz", "<i", "<p">>] >>

\* A record is a sequence of items: literal bytes (t = "b") or a 4-byte
\* address of the text "Hi" (t = "p") or of the id text "11" (t = "pi"),
\* little-endian unless be.
Lit(b) == [t |-> "b", be |-> FALSE, v |-> b]

Ptr(t, be) == [t |-> t, be |-> be, v |-> <<>>]

RecordT1 == <<Lit(<<9, 0, 0, 0>>), Ptr("p", FALSE), Lit(<<254>>), Lit(<<1, 0>>)>>

RecordT2 == <<Lit(<<2, 0, 0, 0>>), Ptr("p", FALSE), Lit(<<5>>), Lit(<<0, 7>>)>>

RecordU == <<Ptr("pi", FALSE), Lit(<<0, 0, 0, 3>>), Lit(<<4, 0>>), Lit(<<0, 0, 0, 11>>)>>

RecordX == <<Lit(<<1, 2, 3, 4>>)>>

RecordV == <<Lit(<<7, 0, 0, 0>>), Ptr("p", FALSE)>>

\* the entries of a file: the type names with their records
EntryNames == { <<NameT, NameTQ>>, <<NameT, NameU>>, <<NameT, NameX>>, <<NameT, NameV>> }

RecordOf(name, k) ==
    IF name = NameU THEN RecordU
    ELSE IF name = NameX THEN RecordX
    ELSE IF name = NameV THEN RecordV
    ELSE IF k = 1 THEN RecordT1 ELSE RecordT2

\* the stored TOC ids of the entries, in file order
EntryIds == { <<0, 1>>, <<1, 0>>, <<0, 5>> }

TocPos == MAIN_TABLE_STARTADDR_ADDR + 4

StringPool == <<72, 105, 0, 49, 49, 0>>

RECURSIVE SumLen(_, _)
SumLen(seqs, extra) ==
    IF seqs = <<>> THEN 0 ELSE Len(Head(seqs)) + extra + SumLen(Tail(seqs), extra)

AddressBytes(a, be) == IF be THEN Reverse(PackLE(a, 4)) ELSE PackLE(a, 4)

ItemBytes(it, pool) ==
    IF it.t = "b" THEN it.v
    ELSE AddressBytes((IF it.t = "p" THEN pool ELSE pool + 3) - MXE_ADDRESS_OFFSET, it.be)

RECURSIVE RecordBytes(_, _)
RecordBytes(rec, pool) ==
    IF rec = <<>> THEN <<>> ELSE ItemBytes(Head(rec), pool) \o RecordBytes(Tail(rec), pool)

RECURSIVE Concat(_)
Concat(seqs) == IF seqs = <<>> THEN <<>> ELSE Head(seqs) \o Concat(Tail(seqs))

TocBytes(id, namePos, recPos) ==
    PackLE(id, 4) \o PackLE(0, 4) \o PackLE(namePos - MXE_ADDRESS_OFFSET, 4) \o Zeros(4)
    \o PackLE(recPos - MXE_ADDRESS_OFFSET, 4) \o Zeros(12)

\* the TOC, the string pool at position pool, the type names, the records
FileBody(names, ids, n, pool, recs) ==
    Concat([k \in 1..n |->
              TocBytes(ids[k],
                       pool + Len(StringPool) + SumLen(SubSeq(names, 1, k - 1), 1),
                       pool + Len(StringPool) + SumLen(names, 1)
                            + SumLen(SubSeq(recs, 1, k - 1), 0))])
    \o StringPool \o Concat([k \in 1..n |-> names[k] \o <<0>>]) \o Concat(recs)

FileAt(names, ids, n, pool) ==
    Zeros(MAIN_TABLE_COUNT_ADDR) \o PackLE(n, 4)
    \o Zeros(MAIN_TABLE_STARTADDR_ADDR - MAIN_TABLE_COUNT_ADDR - 4)
    \o PackLE(TocPos - MXE_ADDRESS_OFFSET, 4)
    \o FileBody(names, ids, n, pool, [k \in 1..n |-> RecordBytes(RecordOf(names[k], k), pool)])

\* the bytes of an MXE file: entry count at 0xC8, TOC address at 0xE0, the
\* TOC, the string pool, the type names, the records
MakeFile(names, ids) == FileAt(names, ids, Len(names), TocPos + TOC_ENTRY_SIZE * Len(names))

MxeFiles == {MakeFile(names, ids) : names \in EntryNames, ids \in EntryIds}

\* a file cut 12 bytes before its end: the record of its last entry, of
\* type 'U', holds 2 bytes, less than its first field
TruncatedFiles ==
    { SubSeq(MakeFile(<<NameT, NameU>>, <<0, 1>>), 1,
             Len(MakeFile(<<NameT, NameU>>, <<0, 1>>)) - 12) }

\* MXE_SETTINGS as the script defines it
DefaultSettings ==
    [MXE_ADDRESS_OFFSET |-> MXE_ADDRESS_OFFSET, RESOLVE_CLASSIC_POINTERS |-> TRUE,
     RESOLVE_XLB_POINTERS |-> TRUE, RESOLVE_XLB_STRINGS |-> TRUE]

\* the settings after a configuration file: the resolve switches changed,
\* or the address bias changed to 0x48
SettingsSets ==
    { [DefaultSettings EXCEPT !.RESOLVE_CLASSIC_POINTERS = a, !.RESOLVE_XLB_POINTERS = b,
                              !.RESOLVE_XLB_STRINGS = c] : a, b, c \in BOOLEAN }
    \cup { [DefaultSettings EXCEPT !.MXE_ADDRESS_OFFSET = MXE_ADDRESS_OFFSET + 8] }

NoModifiers ==
    [FORCE_HEX_OUTPUT |-> FALSE, FORCE_RAW_CLASSIC_POINTERS |-> FALSE,
     FORCE_RAW_XLB_POINTERS |-> FALSE, FORCE_XLB_IDS |-> FALSE]

\* the output modifiers of an export: the defaults, or one switch set
ModifierSets ==
    { NoModifiers,
      [NoModifiers EXCEPT !.FORCE_HEX_OUTPUT = TRUE],
      [NoModifiers EXCEPT !.FORCE_RAW_CLASSIC_POINTERS = TRUE],
      [NoModifiers EXCEPT !.FORCE_RAW_XLB_POINTERS = TRUE],
      [NoModifiers EXCEPT !.FORCE_XLB_IDS = TRUE] }

\* bounds of the model
MaxPayload == 3

MaxSections == 2

\* the CSV files written by hand: header of template h, InternalName of
\* template t, the rows of the RecordIds ids ("0", "1" and, outside the table, "7"),
\* every cell of row j the text cells[j]
HandIds == { <<<<48>>>>, <<<<49>>>>, <<<<55>>>>, <<<<48>>, <<55>>>>, <<<<55>>, <<49>>>> }

HandCells == { <<<<53>>, <<54>>>>, <<<<120>>, <<120>>>> }

HandTable(tpls, h, t, ids, cells) ==
    [head |-> <<[c0 |-> RecordIdText, c1 |-> InternalNameText, dts |-> tpls[h].fields]>>,
     rows |-> [j \in 1..Len(ids) |->
                 [id |-> ids[j], name |-> tpls[t].name,
                  cells |-> [i \in 1..Len(tpls[h].fields) |-> cells[j]]]]]

HandTables(tpls) ==
    { HandTable(tpls, h, t, ids, cells) :
        h \in 1..Len(tpls), t \in 1..Len(tpls), ids \in HandIds, cells \in HandCells }

\* XLB files: sections of some record counts, payload keys in any order
XlbCounts == {0, 2, 3}

XlbKeys == {48, 56, 64, 80, 128}

XlbFile(counts, marker, keys) ==
    [sections |-> [h \in 1..Len(counts) |->
                     [recordCount |-> counts[h],
                      ids |-> [j \in 1..counts[h] |-> 10 * h + j]]],
     marker   |-> marker,
     payload  |-> [n \in 1..Len(keys) |-> [key |-> keys[n], bytes |-> <<64 + n>>]]]

XlbMarkers == { CHNK, <<67, 72, 78, 0>> }

XlbFiles ==
    { XlbFile(counts, marker, keys) :
        counts \in UNION {[1..n -> XlbCounts] : n \in 1..MaxSections},
        marker \in XlbMarkers,
        keys \in UNION {[1..n -> XlbKeys] : n \in 1..MaxPayload} }

\* the XLB files handed to an export
ExportXlbFiles ==
    { XlbFile(<<3>>, marker, <<48, 64>>) : marker \in XlbMarkers }

-----------------------------------------------------------------------------
(* The pipeline: read, then exports, imports and a write *)

EmptyDir == [k \in {} |-> 0]

\* no codec call under way
CodecIdle == [pc |-> "idle", buf |-> <<>>, dt |-> "", text |-> Ok(<<>>), out |-> Ok(NoneV)]

NoCsv == [head |-> <<>>, rows |-> <<>>]

Init ==
    /\ file \in MxeFiles \cup TruncatedFiles
    /\ templates = TemplateTable
    /\ mxe_settings \in SettingsSets
    /\ output_modifiers = NoModifiers
    /\ xlb_file = XlbFile(<<3>>, CHNK, <<48, 64>>)
    /\ main_table = <<>>
    /\ csv_dir = EmptyDir
    /\ file_names = <<>>
    /\ csv_path = NoCsv
    /\ pc = "start"
    /\ xlb = XlbIdle
    /\ open_files = {}
    /\ codec = CodecIdle

Loaded(r) ==
    /\ main_table' = (IF r.ok THEN r.v ELSE <<>>)
    /\ pc' = (IF r.ok THEN "loaded" ELSE "exit")
    /\ open_files' = open_files \cup (IF r.ok THEN {} ELSE {"mxe"})

\* lines 821-828: readMXEFile(mxe_path, templates) at the start of a run; an
\* exception ends the program.  The file opened at line 480 is closed at
\* line 541, which an exception does not reach.
ReadMXE ==
    /\ pc = "start"
    /\ Loaded(readMXEFile(file, templates, mxe_settings))
    /\ UNCHANGED <<file, templates, mxe_settings, output_modifiers, xlb_file,
                   csv_dir, file_names, csv_path, xlb, codec>>

\* the orders in which a set can be iterated
Orders(S) == { o \in [1..Cardinality(S) -> S] : \A x \in S : \E n \in DOMAIN o : o[n] = x }

\* line 336: the handle readXLB opens; no line of readXLB closes it
XlbHandle(st) == IF st.RESOLVE_XLB_STRINGS THEN {"xlb"} ELSE {}

Exported(r) ==
    /\ csv_dir' = r.dir
    /\ pc' = (IF r.exc = "" THEN "exported" ELSE "exit")
    /\ open_files' = open_files \cup XlbHandle(mxe_settings)

\* lines 834-841, mode R: writeMXEtoCSV(main_table, templates, dir, xlb_path)
\* into an empty directory, with the output modifiers and the XLB file of
\* the run
ExportCSV ==
    /\ pc = "loaded"
    /\ csv_dir = EmptyDir
    /\ \E om \in ModifierSets, xf \in ExportXlbFiles,
          order \in Orders(UniqTemplates(main_table)) :
         /\ output_modifiers' = om
         /\ xlb_file' = xf
         /\ Exported(writeMXEtoCSV(csv_dir, main_table, templates, xf, mxe_settings, om, order))
    /\ UNCHANGED <<file, templates, mxe_settings, main_table, file_names, csv_path, xlb,
                   codec>>

\* lines 841-869: after the export the script runs to its end; the process
\* ends, its handles with it, and the next run starts with the directory
\* filled
EndRun ==
    /\ pc = "exported"
    /\ pc' = "start"
    /\ open_files' = {}
    /\ UNCHANGED <<file, templates, mxe_settings, output_modifiers, xlb_file, main_table,
                   csv_dir, file_names, csv_path, xlb, codec>>

\* lines 739-741, modes W and T: applyCSVDIRtoMXE lists the directory
ListDir ==
    /\ pc = "loaded"
    /\ \E order \in Orders(DOMAIN csv_dir) : file_names' = order
    /\ pc' = "dir"
    /\ UNCHANGED <<file, templates, mxe_settings, output_modifiers, xlb_file, main_table,
                   csv_dir, csv_path, xlb, open_files, codec>>

Applied(r, next) ==
    /\ main_table' = r.table
    /\ pc' = (IF r.exc = "" THEN next ELSE "exit")

\* lines 742-743: applyCSVtoMXE on the next file of the directory
ApplyDirFile ==
    /\ pc = "dir"
    /\ file_names # <<>>
    /\ csv_path' = csv_dir[Head(file_names)]
    /\ file_names' = Tail(file_names)
    /\ Applied(applyCSVtoMXE(main_table, templates, csv_dir[Head(file_names)]), "dir")
    /\ UNCHANGED <<file, templates, mxe_settings, output_modifiers, xlb_file, csv_dir, xlb,
                   open_files, codec>>

\* lines 854-860: applyCSVtoMXE on the single file, one written by hand
ApplySingle ==
    /\ pc = "dir"
    /\ file_names = <<>>
    /\ \E csv \in HandTables(templates) :
         /\ csv_path' = csv
         /\ Applied(applyCSVtoMXE(main_table, templates, csv), "applied")
    /\ UNCHANGED <<file, templates, mxe_settings, output_modifiers, xlb_file, csv_dir,
                   file_names, xlb, open_files, codec>>

\* lines 556-559 and 611-612: the debug log is opened when debug is set and
\* closed after the loop, which an exception in the loop does not reach; the
\* MXE file itself is opened by a with statement (line 561)
LogHandle(debug, w) == IF debug /\ w.exc # "" THEN {"log"} ELSE {}

Written(w, debug) ==
    /\ file' = w.f
    /\ pc' = (IF w.exc = "" THEN "written" ELSE "exit")
    /\ open_files' = open_files \cup LogHandle(debug, w)

\* lines 545-551: the backup copy failed; writeMXEFile returns before it
\* opens a file
BackupFailed ==
    /\ pc' = "exit"
    /\ UNCHANGED <<file, open_files>>

\* lines 863-868, mode W: writeMXEFile(mxe_path, main_table, templates,
\* MXE_SETTINGS, backup, debug, debug_log)
WriteMXE ==
    /\ \/ pc = "applied"
       \/ pc = "dir" /\ file_names = <<>>
    /\ \/ \E debug \in BOOLEAN :
            Written(writeMXEFile(file, main_table, templates, mxe_settings), debug)
       \/ BackupFailed
    /\ UNCHANGED <<templates, mxe_settings, output_modifiers, xlb_file, main_table,
                   csv_dir, file_names, csv_path, xlb, codec>>

Next ==
    ReadMXE \/ ExportCSV \/ EndRun \/ ListDir \/ ApplyDirFile \/ ApplySingle \/ WriteMXE

Spec == Init /\ [][Next]_vars

-----------------------------------------------------------------------------
(* readXLB step by step *)

InitXLB ==
    /\ xlb_file \in XlbFiles
    /\ xlb = XlbIdle
    /\ file = <<>>
    /\ templates = TemplateTable
    /\ mxe_settings = DefaultSettings
    /\ output_modifiers = NoModifiers
    /\ main_table = <<>>
    /\ csv_dir = EmptyDir
    /\ file_names = <<>>
    /\ csv_path = NoCsv
    /\ pc = "xlb"
    /\ open_files = {}
    /\ codec = CodecIdle

XlbFrame == UNCHANGED <<file, templates, mxe_settings, output_modifiers, xlb_file,
                        main_table, csv_dir, file_names, csv_path, pc, codec>>

\* line 336 opens the file
XlbOpen ==
    /\ xlb.pc = "idle"
    /\ xlb' = XlbOpenOp(xlb_file)
    /\ open_files' = open_files \cup {"xlb"}
    /\ XlbFrame

XlbStore ==
    xlb.pc = "store" /\ xlb' = XlbStoreOp(xlb, xlb_file) /\ UNCHANGED open_files /\ XlbFrame

XlbPlace ==
    xlb.pc = "place" /\ xlb' = XlbPlaceOp(xlb, xlb_file) /\ UNCHANGED open_files /\ XlbFrame

XlbCrutch ==
    xlb.pc = "crutch" /\ xlb' = XlbCrutchOp(xlb) /\ UNCHANGED open_files /\ XlbFrame

XlbSkipEmpty ==
    xlb.pc = "skip" /\ xlb' = XlbSkipEmptyOp(xlb) /\ UNCHANGED open_files /\ XlbFrame

NextXLB == XlbOpen \/ XlbStore \/ XlbPlace \/ XlbCrutch \/ XlbSkipEmpty

SpecXLB == InitXLB /\ [][NextXLB]_vars

-----------------------------------------------------------------------------
(* The field codec: a stored value rendered as a cell and encoded back *)

\* the byte values of the stored values handed to the codec
CodecByteValues == {0, 18, 171, 255}

\* the 4-byte data types of the calls
CodecTypes == {"<h", ">h", "<i", ">i"}

InitCodec ==
    /\ codec \in { [CodecIdle EXCEPT !.pc = "start", !.buf = b, !.dt = dt] :
                     b \in [1..4 -> CodecByteValues], dt \in CodecTypes }
    /\ xlb_file = XlbFile(<<3>>, CHNK, <<48, 64>>)
    /\ xlb = XlbIdle
    /\ file = <<>>
    /\ templates = TemplateTable
    /\ mxe_settings = DefaultSettings
    /\ output_modifiers = NoModifiers
    /\ main_table = <<>>
    /\ csv_dir = EmptyDir
    /\ file_names = <<>>
    /\ csv_path = NoCsv
    /\ pc = "codec"
    /\ open_files = {}

CodecFrame == UNCHANGED <<file, templates, mxe_settings, output_modifiers, xlb_file,
                          main_table, csv_dir, file_names, csv_path, pc, xlb, open_files>>

\* line 693: bytesToText(data, dt), the cell of an export
CodecToText ==
    /\ codec.pc = "start"
    /\ codec' = [codec EXCEPT !.pc = "text",
                              !.text = bytesToText(BytesV(codec.buf), codec.dt)]
    /\ CodecFrame

\* line 729: objToBytes(row[2+i], dt), the cell applied back
CodecToBytes ==
    /\ codec.pc = "text"
    /\ codec.text.ok
    /\ codec' = [codec EXCEPT !.pc = "done", !.out = objToBytes(codec.text.v, codec.dt)]
    /\ CodecFrame

NextCodec == CodecToText \/ CodecToBytes

SpecCodec == InitCodec /\ [][NextCodec]_vars

-----------------------------------------------------------------------------
(* Properties of readXLB (SpecXLB) *)

\* the key difference of the record just read, in rows
KeyDelta(prev, key) == (key - prev) \div 16

\* C7: in readXLB, for every payload record after the first, with
\* delta = (key - previousKey) / 16: if currentSlot + delta is at or past
\* the record count of the current section, the placement advances to the
\* next section and sets currentSlot = delta - emptyLeft - 3, emptyLeft =
\* recordCount - 1 - currentSlot taken before advancing; otherwise it stays
\* in the section with currentSlot + delta.
C7_BoundaryRule ==
    [][xlb.pc = "place" =>
         IF xlb.currRec + KeyDelta(xlb.prev_id2, xlb'.rec_id2)
              >= xlb.data[xlb.currHeader + 1].recordCount
         THEN /\ xlb'.currHeader = xlb.currHeader + 1
              /\ xlb'.currRec = KeyDelta(xlb.prev_id2, xlb'.rec_id2)
                                - (xlb.data[xlb.currHeader + 1].recordCount - 1 - xlb.currRec)
                                - 3
         ELSE /\ xlb'.currHeader = xlb.currHeader
              /\ xlb'.currRec = xlb.currRec + KeyDelta(xlb.prev_id2, xlb'.rec_id2)]_vars

\* a record has crossed the end of section 0 with rows of it left empty
C7_Crossed ==
    /\ xlb.pc = "crutch"
    /\ xlb.currHeader = 1
    /\ xlb.i = 1
    /\ xlb.currRec = KeyDelta(xlb.prev_id2, xlb.rec_id2) - 2 - 3
    /\ xlb.data[1].recordCount = 3

\* every payload key lies in section 0: its row (k - 48) / 16 exists there
KeysInSection0(xf) ==
    /\ xf.sections # <<>>
    /\ \A n \in 1..Len(xf.payload) :
         /\ xf.payload[n].key >= 48
         /\ (xf.payload[n].key - 48) \div 16 < xf.sections[1].recordCount

\* every key differs from the key before it by a multiple of 16
KeysInSteps(xf) ==
    \A n \in 2..Len(xf.payload) : (xf.payload[n].key - xf.payload[n - 1].key) % 16 = 0

\* the record about to be stored goes to row (k - 48) / 16 of section 0
StoredAtKeyRow == xlb.currHeader = 0 /\ xlb.currRec = (xlb.rec_id2 - 48) \div 16

\* C8 as stated: when all payload keys fall in section 0, the payload with
\* key k is stored at slot (k - 48) / 16 of section 0.
C8_AsStated == (xlb.pc = "store" /\ KeysInSection0(xlb_file)) => StoredAtKeyRow

\* C8, restated: when all payload keys fall in section 0 and every key
\* differs from the key before it by a multiple of 16, the payload with key
\* k is stored at slot (k - 48) / 16 of section 0, and the parse returns
\* with that slot filled; so [48, 64, 80] goes to the slots [0, 1, 2].
C8_InSteps ==
    (KeysInSection0(xlb_file) /\ KeysInSteps(xlb_file)) =>
        /\ xlb.pc = "store" => StoredAtKeyRow
        /\ xlb.pc # "raised"
        /\ xlb.pc = "returned" /\ xlb_file.marker = CHNK =>
             \A n \in 1..Len(xlb_file.payload) :
                 xlb.data[1].records[(xlb_file.payload[n].key - 48) \div 16 + 1].filled

\* the keys [48, 64, 80] parsed into the rows 0, 1, 2 of a section of 3
C8_Literal ==
    /\ xlb.pc = "returned"
    /\ xlb_file.marker = CHNK
    /\ [n \in 1..Len(xlb_file.payload) |-> xlb_file.payload[n].key] = <<48, 64, 80>>
    /\ xlb_file.sections[1].recordCount = 3
    /\ [j \in 1..3 |-> xlb.data[1].records[j].text] = <<<<65>>, <<66>>, <<67>>>>

\* C10: in readXLB, when the 4 bytes after the header block are not 'CHNK'
\* the parse fails as a whole: it ends in an error and yields no container.
C10_MarkerFatal ==
    (xlb_file.marker # CHNK /\ xlb.pc \in {"returned", "raised"}) => xlb.pc = "raised"

\* the payload keys ascend
KeysAscending(xf) ==
    \A n \in 2..Len(xf.payload) : xf.payload[n].key > xf.payload[n - 1].key

\* the slot the record in hand is stored into
TargetSlot(st) ==
    st.data[st.currHeader + 1].records[
        PyIndex(st.currRec, Len(st.data[st.currHeader + 1].records))]

\* C16: during the payload pass of readXLB, for every sequence of payload
\* records with ascending keys, no payload record is stored into a slot
\* that an earlier record of the pass already filled, and the number of
\* slots of every section stays equal to its record count.
C16_FilledOnce ==
    [][(XlbStore /\ xlb'.pc # "raised" /\ KeysAscending(xlb_file)) =>
         /\ ~TargetSlot(xlb).filled
         /\ \A h \in 1..Len(xlb'.data) :
              Len(xlb'.data[h].records) = xlb'.data[h].recordCount]_vars

\* C18: in readXLB every payload record is stored at a (section, slot) pair
\* that exists: when the store is executed, 0 <= currentSection < number of
\* sections and 0 <= currentSlot < recordCount(currentSection).
C18_StoreInRange ==
    xlb.pc = "store" =>
        /\ xlb.currHeader >= 0
        /\ xlb.currHeader < Len(xlb.data)
        /\ xlb.currRec >= 0
        /\ xlb.currRec < xlb.data[xlb.currHeader + 1].recordCount

-----------------------------------------------------------------------------
(* Properties of the pipeline (Spec) *)

\* the step is a call of applyCSVtoMXE, on the file csv_path'
ApplyCall == ApplyDirFile \/ ApplySingle

\* the template an import takes: the one of the first data row
ImportTemplate(csv) == FindTemplate(templates, SplitFirst(csv.rows[1].name))

\* the offset of field i in a record laid out by the identifiers dts; an
\* unknown identifier takes no bytes
RECURSIVE FieldOffset(_, _)
FieldOffset(dts, i) ==
    IF i <= 1 THEN 0
    ELSE FieldOffset(dts, i - 1)
         + (IF dts[i - 1] \in DataTypeIds THEN DataTypes(dts[i - 1]) ELSE 0)

\* the bytes of field i in the file, short at its end
FieldBytes(f, entry, dts, i) ==
    ReadAt(f, followAddress(entry.rec_addr) + FieldOffset(dts, i), DataTypes(dts[i]))

\* the fixed-width integer fields of the entries of table o have the same
\* stored value in table t
SameIntFieldsOf(t, o, e, dts) ==
    \A i \in 1..Len(dts) :
        dts[i] \in {"<i", ">i", "<i2", ">i2", "i1"} =>
            i <= Len(t[e].fields) /\ t[e].fields[i] = o[e].fields[i]

SameIntFields(t, o) ==
    /\ Len(t) = Len(o)
    /\ \A e \in 1..Len(o) :
         FindTemplate(templates, SplitFirst(o[e].name)) # 0 =>
             SameIntFieldsOf(t, o, e,
                             templates[FindTemplate(templates, SplitFirst(o[e].name))].fields)

\* C1: for every Main Table produced by readMXEFile, exporting it with
\* writeMXEtoCSV and applying each exported table back with applyCSVtoMXE
\* leaves every fixed-width integer field of every entry byte-identical to
\* its value before the import, whatever the stored TOC ids are.
C1_RoundTrip ==
    (pc = "dir" /\ file_names = <<>> /\ csv_dir # EmptyDir /\ output_modifiers = NoModifiers)
        => SameIntFields(main_table, readMXEFile(file, templates, mxe_settings).v)

PointerBytesKeptOf(f, g, entry, dts) ==
    \A i \in 1..Len(dts) :
        dts[i] \in {"<p", ">p", "<pi", ">pi", "<ip", ">ip"} =>
            FieldBytes(g, entry, dts, i) = FieldBytes(f, entry, dts, i)

\* C2: after readMXEFile, any applyCSVtoMXE calls and writeMXEFile, the
\* bytes written at the position of every pointer field of every entry with
\* a template are the raw address bytes read from that position.
C2_PointerBytesKept ==
    [][pc' = "written" =>
         \A e \in 1..Len(main_table) :
             FindTemplate(templates, SplitFirst(main_table[e].name)) # 0 =>
                 PointerBytesKeptOf(file, file', main_table[e],
                     templates[FindTemplate(templates, SplitFirst(main_table[e].name))].fields)]_vars

\* a RecordId that is a number outside 0 .. n-1
OutOfRange(p, n) == p.ok /\ (p.big \/ p.v < 0 \/ p.v >= n)

HasOutOfRange(csv, n) ==
    \E j \in 1..Len(csv.rows) : OutOfRange(ParseInt(csv.rows[j].id), n)

WithoutOutOfRange(csv, n) ==
    [csv EXCEPT !.rows = SelectSeq(csv.rows, LAMBDA r : ~OutOfRange(ParseInt(r.id), n))]

SameOutcome(r, table, at) == table = r.table /\ ((at = "exit") <=> (r.exc # ""))

\* C3: in applyCSVtoMXE a data row whose RecordId is outside the Main
\* Table's range is skipped: the call does what it does on the same file
\* without those rows, changing no field for them and processing the rest.
C3_RowSkipped ==
    [][(ApplyCall /\ HasOutOfRange(csv_path', Len(main_table))) =>
         SameOutcome(applyCSVtoMXE(main_table, templates,
                                   WithoutOutOfRange(csv_path', Len(main_table))),
                     main_table', pc')]_vars

PointerColumnsKept(t, u, dts) ==
    /\ Len(u) = Len(t)
    /\ \A e \in 1..Len(t) :
         /\ Len(u[e].fields) = Len(t[e].fields)
         /\ \A i \in 1..Len(dts) :
              (dts[i] \in {"<p", ">p", "<pi", ">pi", "<ip", ">ip"} /\ i <= Len(t[e].fields))
                  => u[e].fields[i] = t[e].fields[i]

\* C4: in applyCSVtoMXE, for every column whose template data type is a
\* pointer type (<p, >p, <pi, >pi, <ip, >ip) the stored value of that field
\* of the entry is unchanged by the call, whatever the cell text is.
C4_PointerColumnsKept ==
    [][(ApplyCall /\ csv_path'.rows # <<>> /\ ImportTemplate(csv_path') # 0) =>
         PointerColumnsKept(main_table, main_table',
                            templates[ImportTemplate(csv_path')].fields)]_vars

\* an import of template U has rewritten the integer fields of an entry of
\* template U and left its pointer fields, the first and the last, as read
C4_Imported ==
    /\ pc = "applied"
    /\ csv_path.rows # <<>>
    /\ ImportTemplate(csv_path) = 2
    /\ csv_path.head[1].dts = templates[2].fields
    /\ \E e \in 1..Len(main_table) :
         /\ main_table[e].name = NameU
         /\ main_table[e].fields[2] = BytesV(<<0, 0, 0, 5>>)
         /\ main_table[e].fields[3] = BytesV(<<5, 0>>)
         /\ main_table[e].fields[4] = BytesV(<<0, 0, 0, 11>>)
         /\ main_table[e].fields[1].raw = FieldBytes(file, main_table[e], templates[2].fields, 1)

HexCells(fields) == [i \in 1..Len(fields) |-> bytesAsBEHex(BytesV(fields[i].raw)).v]

HexRowIn(csv, entry) ==
    \E j \in 1..Len(csv.rows) :
        /\ csv.rows[j].id = IntToText(entry.id)
        /\ csv.rows[j].cells = HexCells(entry.fields)

\* C5: with FORCE_HEX_OUTPUT, writeMXEtoCSV renders every field cell of
\* every exported entry as the big-endian hex display of the field's stored
\* bytes, pointer fields stored as a (raw address, resolved value) pair
\* included.
C5_HexCells ==
    (/\ output_modifiers.FORCE_HEX_OUTPUT
     /\ csv_path = NoCsv
     /\ main_table # <<>>
     /\ \A e \in 1..Len(main_table) :
          FindTemplate(templates, SplitFirst(main_table[e].name)) # 0)
        => \A e \in 1..Len(main_table) :
             /\ SplitFirst(main_table[e].name) \in DOMAIN csv_dir
             /\ HexRowIn(csv_dir[SplitFirst(main_table[e].name)], main_table[e])

\* C6: writeMXEFile never changes the byte length of the target file.
C6_LengthKept == [][Len(file') = Len(file)]_vars

\* the table with the type-name 'T:Q' replaced by 'T'
Unqualified(table) ==
    [e \in 1..Len(table) |->
        IF table[e].name = NameTQ THEN [table[e] EXCEPT !.name = NameT] ELSE table[e]]

RowOf(csv, entry) ==
    \E j \in 1..Len(csv.rows) :
        csv.rows[j].id = IntToText(entry.id) /\ csv.rows[j].name = entry.name

\* C9: template selection uses only the part of the stored type-name before
\* the first ':': readMXEFile reads an entry named 'T:Q' with the template
\* 'T', writeMXEtoCSV puts its row into the file of 'T', and writeMXEFile
\* writes it as it writes an entry named 'T'.
C9_UnqualifiedName ==
    /\ pc = "loaded" =>
         \A e \in 1..Len(main_table) :
             main_table[e].name = NameTQ =>
                 main_table[e].fields
                     = ReadFields(file, followAddress(main_table[e].rec_addr),
                                  templates[1].fields, mxe_settings).v
    /\ (pc = "start" /\ csv_dir # EmptyDir) =>
         \A e \in 1..Len(main_table) :
             main_table[e].name = NameTQ =>
                 /\ NameTQ \notin DOMAIN csv_dir
                 /\ NameT \in DOMAIN csv_dir
                 /\ csv_dir[NameT].head[1].dts = templates[1].fields
                 /\ RowOf(csv_dir[NameT], main_table[e])
    /\ pc = "written" =>
         file = writeMXEFile(file, Unqualified(main_table), templates, mxe_settings).f

\* an entry named 'T:Q' was read, exported into the file of 'T', changed by
\* an import and written with the template 'T'
C9_Qualified ==
    /\ pc = "written"
    /\ NameT \in DOMAIN csv_dir
    /\ \E e \in 1..Len(main_table) :
         /\ main_table[e].name = NameTQ
         /\ RowOf(csv_dir[NameT], main_table[e])
         /\ main_table[e].fields[1] = BytesV(<<5, 0, 0, 0>>)
         /\ FieldBytes(file, main_table[e], templates[1].fields, 1) = <<5, 0, 0, 0>>

\* the entry count stored in the file
StoredCount(f) == UnpackAt(ReadAt(f, MAIN_TABLE_COUNT_ADDR, 4), 0).v

\* the TOC entry stored at file position n (from 1), its field list empty
StoredEntry(f, n) ==
    ReadTocEntry(f, followAddress(UnpackAt(ReadAt(f, MAIN_TABLE_STARTADDR_ADDR, 4), 0).v),
                 n - 1).v

\* the field list of an entry: empty without template, decoded with it
FieldsAsRead(f, entry, t, st) ==
    IF t = 0 THEN <<>>
    ELSE ReadFields(f, followAddress(entry.rec_addr), templates[t].fields, st).v

\* C11: readMXEFile of a whole file is not aborted by entries without a
\* template: the returned Main Table has exactly the stored entry count of
\* entries, in file order, every entry whose type-name prefix matches no
\* template is present at its file position with an empty field list, and
\* the entries with a template are decoded normally.
C11_MissingTemplateKept ==
    [][(ReadMXE /\ file \in MxeFiles) =>
         /\ pc' = "loaded"
         /\ Len(main_table') = StoredCount(file)
         /\ \A n \in 1..Len(main_table') :
              /\ [main_table'[n] EXCEPT !.fields = <<>>] = StoredEntry(file, n)
              /\ main_table'[n].fields
                   = FieldsAsRead(file, main_table'[n],
                                  FindTemplate(templates, SplitFirst(main_table'[n].name)),
                                  mxe_settings)]_vars

\* a file whose second entry has the type name 'X', without template, was
\* read: the entry is there with no fields, after the decoded first entry
C11_EntryWithoutTemplate ==
    /\ pc = "loaded"
    /\ Len(main_table) = 2
    /\ main_table[2].name = NameX
    /\ main_table[2].fields = <<>>
    /\ main_table[1].name = NameT
    /\ Len(main_table[1].fields) = 4
    /\ main_table[1].fields[1] = BytesV(<<9, 0, 0, 0>>)

\* some entry of the table has no template
SomeWithoutTemplate(table) ==
    \E n \in 1..Len(table) : FindTemplate(templates, SplitFirst(table[n].name)) = 0

\* C12: writeMXEtoCSV run on a Main Table that contains an entry whose type
\* name matches no template still completes and produces one table for
\* every template key that does have a template.
C12_ExportCompletes ==
    [][(ExportCSV /\ output_modifiers' = NoModifiers /\ SomeWithoutTemplate(main_table)) =>
         /\ pc' = "exported"
         /\ \A key \in UniqTemplates(main_table) :
              FindTemplate(templates, key) # 0 =>
                  /\ key \in DOMAIN csv_dir'
                  /\ csv_dir'[key].head # <<>>]_vars

\* the pointer field i of an entry is to be rendered as its raw address
RawForced(dt, st, om) ==
    \/ dt \in {"<p", ">p"} /\ (om.FORCE_RAW_CLASSIC_POINTERS \/ ~st.RESOLVE_CLASSIC_POINTERS)
    \/ dt \in {"<pi", ">pi"} /\ (om.FORCE_RAW_XLB_POINTERS \/ ~st.RESOLVE_XLB_POINTERS)

\* the cell the rule gives for pointer field x of type dt
PointerCellOk(cell, x, dt, st, om) ==
    IF RawForced(dt, st, om) THEN cell = bytesToText(BytesV(x.raw), dt).v
    ELSE dt \in {"<p", ">p"} => cell = x.val

PointerRowOk(row, entry, dts, st, om) ==
    /\ Len(row.cells) = Len(entry.fields)
    /\ \A i \in 1..Len(entry.fields) :
         dts[i] \in {"<p", ">p", "<pi", ">pi"} =>
             PointerCellOk(row.cells[i], entry.fields[i], dts[i], st, om)

PointerRowIn(dir, entry, t, st, om) ==
    /\ templates[t].name \in DOMAIN dir
    /\ \E j \in 1..Len(dir[templates[t].name].rows) :
         /\ dir[templates[t].name].rows[j].id = IntToText(entry.id)
         /\ dir[templates[t].name].rows[j].name = entry.name
         /\ PointerRowOk(dir[templates[t].name].rows[j], entry, templates[t].fields, st, om)

\* C13: in writeMXEtoCSV with forced hex off, a pointer field renders as its
\* raw address decoded by the codec whenever the matching force-raw switch
\* is set or resolution was disabled at read time, for string-pointer and
\* id-pointer fields, stored as a pair or as plain bytes; otherwise a
\* string-pointer field renders its resolved text.
C13_RawPointerCells ==
    [][(ExportCSV /\ ~output_modifiers'.FORCE_HEX_OUTPUT /\ ~output_modifiers'.FORCE_XLB_IDS
          /\ ~SomeWithoutTemplate(main_table)) =>
         \A e \in 1..Len(main_table) :
             PointerRowIn(csv_dir', main_table[e],
                          FindTemplate(templates, SplitFirst(main_table[e].name)),
                          mxe_settings, output_modifiers')]_vars

\* C14: every file handle opened by readXLB, readMXEFile and writeMXEFile
\* (the debug-trace sink included) is closed when the operation ends, on
\* every exit path: between the operations of a run no handle is open.
C14_HandlesClosed == open_files = {}

\* the bytes of the first field of an entry, at its record address biased
\* by offset
FirstFieldAt(f, entry, t, offset) ==
    ReadAt(f, entry.rec_addr + offset, DataTypes(templates[t].fields[1]))

BiasedBy(f, entry, t, offset) ==
    /\ entry.name = readStr(f, entry.name_addr + offset).v
    /\ t # 0 => entry.fields[1].raw = FirstFieldAt(f, entry, t, offset)

\* C15: every stored address that readMXEFile and writeMXEFile follow is
\* used as stored address + the bias MXE_ADDRESS_OFFSET of the settings in
\* force: the type name and the record of every entry read are the ones at
\* the stored address + the configured bias.
C15_ConfiguredBias ==
    (pc = "loaded" /\ file \in MxeFiles) =>
        \A n \in 1..Len(main_table) :
            BiasedBy(file, main_table[n],
                     FindTemplate(templates, SplitFirst(main_table[n].name)),
                     mxe_settings.MXE_ADDRESS_OFFSET)

\* C17: readMXEFile followed directly by writeMXEFile with the same
\* templates and settings and no import in between leaves every byte of
\* the file unchanged, for every template set, templates that contain an
\* unknown data-type identifier included.
C17_ReadWriteIdentity ==
    [][(WriteMXE /\ csv_path = NoCsv
          /\ main_table = readMXEFile(file, templates, mxe_settings).v) => file' = file]_vars

-----------------------------------------------------------------------------
(* Properties of the field codec (SpecCodec) *)

\* C19: for every 4-byte sequence b, objToBytes(bytesToText(b, t), t) = b
\* for both hex-display types t = '<h' and t = '>h': an exported and
\* re-imported hex field keeps its stored bytes.
C19_HexRoundTrip ==
    (codec.pc = "done" /\ codec.dt \in HexTypes) => codec.out = Ok(BytesV(codec.buf))

====
